---- MODULE Spec2Model ----
(***************************************************************************)
(* Model of the transaction ledger of process_transactions                 *)
(* (src/src/accounting.rs) and of the copy of its logic in src/src/main.rs. *)
(*                                                                         *)
(* In accounting.rs money is decimal::d128.  Amounts are modelled as       *)
(* integers counting tenths (amount k is the decimal k/10); d128 adds and  *)
(* subtracts such values exactly as long as they stay within its 34-digit  *)
(* coefficient, which every value reachable within the bounds below does.  *)
(* In main.rs money is f64, modelled bit for bit (see the f64 section).    *)
(* Option<Money> is modelled as a set: {} is None, {a} is Some(a).         *)
(* HashMap<K, V> is modelled as a function whose DOMAIN is the key set.    *)
(***************************************************************************)
EXTENDS Integers, FiniteSets, Sequences, TLC

\* ------------------------------------------------------------------ bounds

\* Number of calls of process_transaction in one run.
MaxTransactions == 4

\* Largest amount in the input, in tenths: amount k is the decimal k/10.
MaxAmount == 2

\* Largest number of records in the file load_transactions reads.
MaxRecords == 3

\* Largest number of calls of main.rs process_transaction in a run.
MaxMainTransactions == 3

\* Largest number of calls in a run that names one tx id only.
MaxSingleIdTransactions == 5

\* The client ids (u16) and transaction ids (u32) that occur in the input.
ClientIds == {1, 2}
TransactionIds == {1, 2}

\* The amounts that occur in the input.  A negative amount parses as d128
\* like any other and no code rejects it.
Amounts == {-1} \cup (1..MaxAmount)

\* ------------------------------------------------------------ result values

OkResult == "Ok"
ErrDepositAmount == "'deposit' transaction must have 'amount' value"
ErrWithdrawalAmount == "'withdrawal' transaction must have 'amount' value"
ErrInsufficientFunds == "funds are not sufficient for withdrawal"

\* --------------------------------------------------------------- HashMap

\* HashMap::new / Default::default(): the map with no key.
EmptyMap == << >>

\* HashMap::insert: sets or overwrites the value under key k.
MapInsert(m, k, v) == (k :> v) @@ m

\* The entries of m whose key is in keys.
RECURSIVE MapRestrict(_, _)
MapRestrict(m, keys) ==
    IF keys = {} THEN EmptyMap
    ELSE LET k == CHOOSE x \in keys : TRUE
         IN (k :> m[k]) @@ MapRestrict(m, keys \ {k})

\* HashMap::remove: the map without key k (the value is read with MapGet).
MapRemove(m, k) == MapRestrict(m, (DOMAIN m) \ {k})

\* Option returned by HashMap::get / HashMap::remove for key k.
MapGet(m, k) == IF k \in DOMAIN m THEN {m[k]} ELSE {}

\* Option::unwrap of Some(a).
Unwrap(opt) == CHOOSE a \in opt : TRUE

\* --------------------------------------------------------------- Account

AccountNew(client) ==
    [client |-> client, available |-> 0, held |-> 0, total |-> 0,
     locked |-> FALSE, disputed_txs |-> EmptyMap]

\* Mutant of OrInsert: the account is inserted whether or not one exists.
OrInsertReplaces(accts, client) == MapInsert(accts, client, AccountNew(client))

\* self.accounts.entry(client).or_insert(Account::new(client))
OrInsert(accts, client) ==
    IF client \in DOMAIN accts THEN accts
    ELSE MapInsert(accts, client, AccountNew(client))

\* ---------------------------------------------------------- Transaction

Transaction(type_, client, id, amount) ==
    [client |-> client, type_ |-> type_, id |-> id, amount |-> amount]

NoTransaction == Transaction("none", 0, 0, {})

\* ------------------------------------------------- the arms of the match
\* Each arm takes the account obtained by or_insert, the deposit cache and
\* the transaction, and yields the account, the cache and the result.

Outcome(account, cache, res) ==
    [account |-> account, cache |-> cache, result |-> res]

\* Mutant of DepositArm: a deposit also clears the locked flag.
DepositArmUnlocks(account, cache, tx) ==
    IF tx.amount = {} THEN Outcome(account, cache, ErrDepositAmount)
    ELSE LET amount == Unwrap(tx.amount) IN
         Outcome([account EXCEPT !.available = @ + amount,
                                 !.total = @ + amount,
                                 !.locked = FALSE],
                 MapInsert(cache, tx.id, amount),
                 OkResult)

\* Mutant of DepositArm: a locked account takes no deposit.
DepositArmRefusesLocked(account, cache, tx) ==
    IF tx.amount = {} THEN Outcome(account, cache, ErrDepositAmount)
    ELSE IF account.locked THEN Outcome(account, cache, "account is locked")
    ELSE LET amount == Unwrap(tx.amount) IN
         Outcome([account EXCEPT !.available = @ + amount,
                                 !.total = @ + amount],
                 MapInsert(cache, tx.id, amount),
                 OkResult)

\* Mutant of DepositArm: an amount already cached under the id is kept.
DepositArmKeepsCachedAmount(account, cache, tx) ==
    IF tx.amount = {} THEN Outcome(account, cache, ErrDepositAmount)
    ELSE LET amount == Unwrap(tx.amount) IN
         Outcome([account EXCEPT !.available = @ + amount,
                                 !.total = @ + amount],
                 IF tx.id \in DOMAIN cache THEN cache
                 ELSE MapInsert(cache, tx.id, amount),
                 OkResult)

DepositArm(account, cache, tx) ==
    IF tx.amount = {} THEN Outcome(account, cache, ErrDepositAmount)
    ELSE LET amount == Unwrap(tx.amount) IN
         Outcome([account EXCEPT !.available = @ + amount,
                                 !.total = @ + amount],
                 MapInsert(cache, tx.id, amount),
                 OkResult)

\* Mutant of WithdrawalArm: only the total is compared with the amount.
WithdrawalArmChecksTotalOnly(account, cache, tx) ==
    IF tx.amount = {} THEN Outcome(account, cache, ErrWithdrawalAmount)
    ELSE LET amount == Unwrap(tx.amount) IN
         IF account.total >= amount
         THEN Outcome([account EXCEPT !.available = @ - amount,
                                      !.total = @ - amount],
                      cache, OkResult)
         ELSE Outcome(account, cache, ErrInsufficientFunds)

\* Mutant of WithdrawalArm: the amount is looked for after the funds check,
\* so an empty account refuses a withdrawal without amount for lack of funds.
WithdrawalArmChecksAmountLate(account, cache, tx) ==
    IF tx.amount # {} /\ account.available >= Unwrap(tx.amount)
                      /\ account.total >= Unwrap(tx.amount)
    THEN Outcome([account EXCEPT !.available = @ - Unwrap(tx.amount),
                                 !.total = @ - Unwrap(tx.amount)],
                 cache, OkResult)
    ELSE IF account.available <= 0
    THEN Outcome(account, cache, ErrInsufficientFunds)
    ELSE Outcome(account, cache, ErrWithdrawalAmount)

\* Mutant of WithdrawalArm: the comparisons are strict.
WithdrawalArmStrict(account, cache, tx) ==
    IF tx.amount = {} THEN Outcome(account, cache, ErrWithdrawalAmount)
    ELSE LET amount == Unwrap(tx.amount) IN
         IF account.available > amount /\ account.total > amount
         THEN Outcome([account EXCEPT !.available = @ - amount,
                                      !.total = @ - amount],
                      cache, OkResult)
         ELSE Outcome(account, cache, ErrInsufficientFunds)

WithdrawalArm(account, cache, tx) ==
    IF tx.amount = {} THEN Outcome(account, cache, ErrWithdrawalAmount)
    ELSE LET amount == Unwrap(tx.amount) IN
         IF account.available >= amount /\ account.total >= amount
         THEN Outcome([account EXCEPT !.available = @ - amount,
                                      !.total = @ - amount],
                      cache, OkResult)
         ELSE Outcome(account, cache, ErrInsufficientFunds)

\* Mutant of DisputeArm: the hold is added but available is not debited.
DisputeArmKeepsAvailable(account, cache, tx) ==
    LET found == MapGet(cache, tx.id) IN
    IF found # {}
    THEN LET amount == Unwrap(found) IN
         Outcome([account EXCEPT
                     !.disputed_txs = MapInsert(@, tx.id, amount),
                     !.held = @ + amount],
                 MapRemove(cache, tx.id),
                 OkResult)
    ELSE Outcome(account, cache, OkResult)

\* Mutant of DisputeArm: the dispute is ignored when available < amount.
DisputeArmChecksFunds(account, cache, tx) ==
    LET found == MapGet(cache, tx.id) IN
    IF found # {} /\ account.available >= Unwrap(found)
    THEN LET amount == Unwrap(found) IN
         Outcome([account EXCEPT
                     !.disputed_txs = MapInsert(@, tx.id, amount),
                     !.held = @ + amount,
                     !.available = @ - amount],
                 MapRemove(cache, tx.id),
                 OkResult)
    ELSE Outcome(account, cache, OkResult)

\* Mutant of DisputeArm: the amount is read with get and the deposit stays
\* in the cache.
DisputeArmKeepsCache(account, cache, tx) ==
    LET found == MapGet(cache, tx.id) IN
    IF found # {}
    THEN LET amount == Unwrap(found) IN
         Outcome([account EXCEPT
                     !.disputed_txs = MapInsert(@, tx.id, amount),
                     !.held = @ + amount,
                     !.available = @ - amount],
                 cache,
                 OkResult)
    ELSE Outcome(account, cache, OkResult)

DisputeArm(account, cache, tx) ==
    LET found == MapGet(cache, tx.id) IN
    IF found # {}
    THEN LET amount == Unwrap(found) IN
         Outcome([account EXCEPT
                     !.disputed_txs = MapInsert(@, tx.id, amount),
                     !.held = @ + amount,
                     !.available = @ - amount],
                 MapRemove(cache, tx.id),
                 OkResult)
    ELSE Outcome(account, cache, OkResult)

\* Mutant of ResolveArm: the dispute is read with get and stays in the set.
ResolveArmKeepsDispute(account, cache, tx) ==
    LET found == MapGet(account.disputed_txs, tx.id) IN
    IF found # {}
    THEN LET amount == Unwrap(found) IN
         Outcome([account EXCEPT
                     !.held = @ - amount,
                     !.available = @ + amount],
                 cache, OkResult)
    ELSE Outcome(account, cache, OkResult)

\* Mutant of ResolveArm: the released amount is credited to total.
ResolveArmCreditsTotal(account, cache, tx) ==
    LET found == MapGet(account.disputed_txs, tx.id) IN
    IF found # {}
    THEN LET amount == Unwrap(found) IN
         Outcome([account EXCEPT
                     !.disputed_txs = MapRemove(@, tx.id),
                     !.held = @ - amount,
                     !.total = @ + amount],
                 cache, OkResult)
    ELSE Outcome(account, cache, OkResult)

\* Mutant of ResolveArm: releasing a dispute locks the account.
ResolveArmLocks(account, cache, tx) ==
    LET found == MapGet(account.disputed_txs, tx.id) IN
    IF found # {}
    THEN LET amount == Unwrap(found) IN
         Outcome([account EXCEPT
                     !.disputed_txs = MapRemove(@, tx.id),
                     !.held = @ - amount,
                     !.available = @ + amount,
                     !.locked = TRUE],
                 cache, OkResult)
    ELSE Outcome(account, cache, OkResult)

ResolveArm(account, cache, tx) ==
    LET found == MapGet(account.disputed_txs, tx.id) IN
    IF found # {}
    THEN LET amount == Unwrap(found) IN
         Outcome([account EXCEPT
                     !.disputed_txs = MapRemove(@, tx.id),
                     !.held = @ - amount,
                     !.available = @ + amount],
                 cache, OkResult)
    ELSE Outcome(account, cache, OkResult)

\* Mutant of ChargebackArm: the account is locked whether or not the
\* transaction is under dispute.
ChargebackArmAlwaysLocks(account, cache, tx) ==
    LET found == MapGet(account.disputed_txs, tx.id) IN
    IF found # {}
    THEN LET amount == Unwrap(found) IN
         Outcome([account EXCEPT
                     !.disputed_txs = MapRemove(@, tx.id),
                     !.held = @ - amount,
                     !.total = @ - amount,
                     !.locked = TRUE],
                 cache, OkResult)
    ELSE Outcome([account EXCEPT !.locked = TRUE], cache, OkResult)

\* Mutant of ChargebackArm: the amount is taken from available, not total.
ChargebackArmDebitsAvailable(account, cache, tx) ==
    LET found == MapGet(account.disputed_txs, tx.id) IN
    IF found # {}
    THEN LET amount == Unwrap(found) IN
         Outcome([account EXCEPT
                     !.disputed_txs = MapRemove(@, tx.id),
                     !.held = @ - amount,
                     !.available = @ - amount,
                     !.locked = TRUE],
                 cache, OkResult)
    ELSE Outcome(account, cache, OkResult)

\* Mutant of ChargebackArm: the dispute is read with get and stays in the set.
ChargebackArmKeepsDispute(account, cache, tx) ==
    LET found == MapGet(account.disputed_txs, tx.id) IN
    IF found # {}
    THEN LET amount == Unwrap(found) IN
         Outcome([account EXCEPT
                     !.held = @ - amount,
                     !.total = @ - amount,
                     !.locked = TRUE],
                 cache, OkResult)
    ELSE Outcome(account, cache, OkResult)

ChargebackArm(account, cache, tx) ==
    LET found == MapGet(account.disputed_txs, tx.id) IN
    IF found # {}
    THEN LET amount == Unwrap(found) IN
         Outcome([account EXCEPT
                     !.disputed_txs = MapRemove(@, tx.id),
                     !.held = @ - amount,
                     !.total = @ - amount,
                     !.locked = TRUE],
                 cache, OkResult)
    ELSE Outcome(account, cache, OkResult)

\* Mutant of ProcessTransaction: the accounts map is rebuilt with the
\* account of transaction.client alone.
ProcessTransactionDropsOthers(ledger, tx) ==
    LET accts == OrInsert(ledger.accounts, tx.client)
        account == accts[tx.client]
        cache == ledger.deposit_transactions_cache
        out == CASE tx.type_ = "deposit" -> DepositArm(account, cache, tx)
                 [] tx.type_ = "withdrawal" -> WithdrawalArm(account, cache, tx)
                 [] tx.type_ = "dispute" -> DisputeArm(account, cache, tx)
                 [] tx.type_ = "resolve" -> ResolveArm(account, cache, tx)
                 [] tx.type_ = "chargeback" -> ChargebackArm(account, cache, tx)
    IN [result |-> out.result,
        accounts |-> MapInsert(EmptyMap, tx.client, out.account),
        deposit_transactions_cache |-> out.cache]

\* Ledger::process_transaction on a ledger value: the ledger after the call
\* and the call's result.  The account is inserted before the match, so it
\* exists afterwards even when the call fails.
ProcessTransaction(ledger, tx) ==
    LET accts == OrInsert(ledger.accounts, tx.client)
        account == accts[tx.client]
        cache == ledger.deposit_transactions_cache
        out == CASE tx.type_ = "deposit" -> DepositArm(account, cache, tx)
                 [] tx.type_ = "withdrawal" -> WithdrawalArm(account, cache, tx)
                 [] tx.type_ = "dispute" -> DisputeArm(account, cache, tx)
                 [] tx.type_ = "resolve" -> ResolveArm(account, cache, tx)
                 [] tx.type_ = "chargeback" -> ChargebackArm(account, cache, tx)
    IN [result |-> out.result,
        accounts |-> [accts EXCEPT ![tx.client] = out.account],
        deposit_transactions_cache |-> out.cache]

\* ------------------------------------------------------------------- f64
\* main.rs keeps money in f64.  An f64 value is modelled exactly, as
\* <<sign, a, b, c>>: sign is 1 or -1 and the magnitude is
\* (a * 2^40 + b * 2^20 + c) * 2^-56, with b, c < 2^20.  Every f64 the
\* model meets is a multiple of 2^-56 below 2^4 in magnitude,
\* and on those values the operators below are IEEE 754 binary64 addition,
\* subtraction and comparison with round-to-nearest-even (53 significant
\* bits).  The input amounts are counted in tenths: amount k is the text
\* k/10, which F64Parse turns into the nearest f64 as f64::from_str does.

F64Limb == 1048576

F64Zero == <<1, 0, 0, 0>>

\* A magnitude with a < F64Exact is below 2^53 * 2^-56 and has at most 53
\* significant bits.
F64Exact == 8192

\* Number of low bits a magnitude with leading limb a has beyond 53.
MagDrop(a) ==
    IF a < F64Exact THEN 0
    ELSE CHOOSE d \in 1..17 : F64Exact * 2^(d - 1) <= a /\ a < F64Exact * 2^d

\* Carries of c into b and of b into a.
MagNormalize(a, b, c) ==
    <<a + ((b + (c \div F64Limb)) \div F64Limb),
      (b + (c \div F64Limb)) % F64Limb,
      c % F64Limb>>

\* -1, 0 or 1 as magnitude x is below, equal to or above magnitude y.
MagCmp(x, y) ==
    IF x[1] # y[1] THEN (IF x[1] < y[1] THEN -1 ELSE 1)
    ELSE IF x[2] # y[2] THEN (IF x[2] < y[2] THEN -1 ELSE 1)
    ELSE IF x[3] # y[3] THEN (IF x[3] < y[3] THEN -1 ELSE 1)
    ELSE 0

\* Magnitude x minus magnitude y, for x above y: one limb is borrowed at c
\* and at b and MagNormalize carries it back.
MagSub(x, y) ==
    MagNormalize(x[1] - y[1] - 1,
                 x[2] - y[2] + F64Limb - 1,
                 x[3] - y[3] + F64Limb)

\* Rounding to nearest, ties to even: whether a magnitude with lowest limb c
\* plus the fraction num/den of 2^-56 goes up when its bits below q = 2^d
\* are dropped.
RoundsUp(c, q, num, den) ==
    IF q = 1
    THEN 2 * num > den \/ (2 * num = den /\ c % 2 = 1)
    ELSE \/ 2 * (c % q) > q
         \/ (2 * (c % q) = q /\ num > 0)
         \/ (2 * (c % q) = q /\ num = 0 /\ (c \div q) % 2 = 1)

\* The magnitude (a, b, c) plus num/den of 2^-56 with the bits below q
\* dropped, rounded.
MagRoundAt(a, b, c, num, den, q) ==
    MagNormalize(a, b,
                 (c - (c % q)) + (IF RoundsUp(c, q, num, den) THEN q ELSE 0))

\* The magnitude (a, b, c) plus the fraction num/den of 2^-56, rounded to
\* 53 significant bits.
MagRound(a, b, c, num, den) == MagRoundAt(a, b, c, num, den, 2^MagDrop(a))

F64Make(sign, mag) ==
    IF mag = <<0, 0, 0>> THEN F64Zero ELSE <<sign, mag[1], mag[2], mag[3]>>

F64Mag(x) == <<x[2], x[3], x[4]>>

F64Neg(x) == IF x = F64Zero THEN F64Zero ELSE <<-x[1], x[2], x[3], x[4]>>

\* The f64 nearest to the exact magnitude mag, with the given sign.
F64Round(sign, mag) ==
    IF mag[1] < F64Exact THEN F64Make(sign, mag)
    ELSE F64Make(sign, MagRound(mag[1], mag[2], mag[3], 0, 1))

\* x + y for x and y of opposite signs, cmp being MagCmp of their magnitudes.
F64AddOpposite(x, y, cmp) ==
    IF cmp = 0 THEN F64Zero
    ELSE IF cmp > 0 THEN F64Round(x[1], MagSub(F64Mag(x), F64Mag(y)))
    ELSE F64Round(y[1], MagSub(F64Mag(y), F64Mag(x)))

\* x + y
F64Add(x, y) ==
    IF x[1] = y[1]
    THEN F64Round(x[1], MagNormalize(x[2] + y[2], x[3] + y[3], x[4] + y[4]))
    ELSE F64AddOpposite(x, y, MagCmp(F64Mag(x), F64Mag(y)))

\* x - y
F64Sub(x, y) == F64Add(x, F64Neg(y))

\* x >= y
F64Ge(x, y) ==
    IF x[1] # y[1] THEN x[1] = 1
    ELSE IF x[1] = 1 THEN MagCmp(F64Mag(x), F64Mag(y)) >= 0
    ELSE MagCmp(F64Mag(x), F64Mag(y)) <= 0

\* The quotient limbs and the remainder of n * 2^56 by 10, limb by limb:
\* hi is the leading limb, r1 what the division of n * 2^16 by 10 left.
F64ParseLow(hi, r1) ==
    MagRound(hi,
             (r1 * F64Limb) \div 10,
             (((r1 * F64Limb) % 10) * F64Limb) \div 10,
             (((r1 * F64Limb) % 10) * F64Limb) % 10,
             10)

\* f64::from_str of the decimal text of k tenths.
F64Parse(k) ==
    IF k < 0
    THEN F64Make(-1, F64ParseLow(((0 - k) * 65536) \div 10, ((0 - k) * 65536) % 10))
    ELSE F64Make(1, F64ParseLow((k * 65536) \div 10, (k * 65536) % 10))

\* ------------------------------------------ main.rs: process_transaction
\* The binary's own copy of the logic.  Money is f64: the amount of a record
\* is parsed to f64 when the record is deserialized, and balances and cached
\* amounts are f64 values.  An account has no disputed set: Dispute, Resolve
\* and Chargeback read the deposit cache with get and leave it as it is.

ErrMainInsufficientFunds == "funds are not sufficient"

\* AccountData::new
MainAccountNew(client) ==
    [client |-> client, available |-> F64Zero, held |-> F64Zero,
     total |-> F64Zero, locked |-> FALSE]

\* accounts.entry(client).or_insert(AccountData::new(client))
MainOrInsert(accts, client) ==
    IF client \in DOMAIN accts THEN accts
    ELSE MapInsert(accts, client, MainAccountNew(client))

\* The Deposit arm once the amount is there.
MainDepositAmount(account, cache, id, amount) ==
    Outcome([account EXCEPT !.available = F64Add(@, amount),
                            !.total = F64Add(@, amount)],
            MapInsert(cache, id, amount),
            OkResult)

MainDepositArm(account, cache, tx) ==
    IF tx.amount = {} THEN Outcome(account, cache, ErrDepositAmount)
    ELSE MainDepositAmount(account, cache, tx.id, F64Parse(Unwrap(tx.amount)))

\* The Withdrawal arm once the amount is there.
MainWithdrawalAmount(account, cache, amount) ==
    IF F64Ge(account.available, amount) /\ F64Ge(account.total, amount)
    THEN Outcome([account EXCEPT !.available = F64Sub(@, amount),
                                 !.total = F64Sub(@, amount)],
                 cache, OkResult)
    ELSE Outcome(account, cache, ErrMainInsufficientFunds)

MainWithdrawalArm(account, cache, tx) ==
    IF tx.amount = {} THEN Outcome(account, cache, ErrWithdrawalAmount)
    ELSE MainWithdrawalAmount(account, cache, F64Parse(Unwrap(tx.amount)))

\* Mutant of MainDisputeArm: the id is taken out of the cache, as
\* Ledger::process_transaction does.
MainDisputeArmRemoves(account, cache, tx) ==
    LET found == MapGet(cache, tx.id) IN
    IF found # {}
    THEN LET amount == Unwrap(found) IN
         Outcome([account EXCEPT !.held = F64Add(@, amount),
                                 !.available = F64Sub(@, amount)],
                 MapRemove(cache, tx.id), OkResult)
    ELSE Outcome(account, cache, OkResult)

MainDisputeArm(account, cache, tx) ==
    LET found == MapGet(cache, tx.id) IN
    IF found # {}
    THEN LET amount == Unwrap(found) IN
         Outcome([account EXCEPT !.held = F64Add(@, amount),
                                 !.available = F64Sub(@, amount)],
                 cache, OkResult)
    ELSE Outcome(account, cache, OkResult)

MainResolveArm(account, cache, tx) ==
    LET found == MapGet(cache, tx.id) IN
    IF found # {}
    THEN LET amount == Unwrap(found) IN
         Outcome([account EXCEPT !.held = F64Sub(@, amount),
                                 !.available = F64Add(@, amount)],
                 cache, OkResult)
    ELSE Outcome(account, cache, OkResult)

MainChargebackArm(account, cache, tx) ==
    LET found == MapGet(cache, tx.id) IN
    IF found # {}
    THEN LET amount == Unwrap(found) IN
         Outcome([account EXCEPT !.held = F64Sub(@, amount),
                                 !.total = F64Sub(@, amount),
                                 !.locked = TRUE],
                 cache, OkResult)
    ELSE Outcome(account, cache, OkResult)

\* process_transaction(&mut accounts, &mut deposit_transactions_cache, &tx)
\* on the pair of maps that load_transactions owns.
MainProcessTransaction(ledger, tx) ==
    LET accts == MainOrInsert(ledger.accounts, tx.client)
        account == accts[tx.client]
        cache == ledger.deposit_transactions_cache
        out == CASE tx.type_ = "deposit" -> MainDepositArm(account, cache, tx)
                 [] tx.type_ = "withdrawal" -> MainWithdrawalArm(account, cache, tx)
                 [] tx.type_ = "dispute" -> MainDisputeArm(account, cache, tx)
                 [] tx.type_ = "resolve" -> MainResolveArm(account, cache, tx)
                 [] tx.type_ = "chargeback" -> MainChargebackArm(account, cache, tx)
    IN [result |-> out.result,
        accounts |-> [accts EXCEPT ![tx.client] = out.account],
        deposit_transactions_cache |-> out.cache]

\* ------------------------------------------------------------------ state

VARIABLES
    accounts,                    \* Ledger.accounts
    deposit_transactions_cache,  \* Ledger.deposit_transactions_cache
    transaction,                 \* the argument of the last call
    result,                      \* what the last call returned
    before,                      \* the ledger as it was when the last call began
    deposited,                   \* tx ids of the deposits applied so far
    resolved_seen,               \* tx ids whose dispute a Resolve has released so far
    last_deposit,                \* tx id -> amount of the latest deposit applied with it
    disputed_since_deposit,      \* tx ids named by a Dispute since their latest deposit
    referenced,                  \* client ids of the transactions processed so far
    disputes_made,               \* <<client, tx id>> of the Disputes that found their id in the cache
    charged_back,                \* <<client, tx id>> of the Chargebacks that found their id disputed
    duplicate_deposit,           \* TRUE once a deposit has been applied under an id already deposited
    main_accounts,               \* main.rs load_transactions: accounts
    main_cache,                  \* main.rs load_transactions: deposit_transactions_cache
    main_result,                 \* what the last call of main.rs process_transaction returned
    main_before,                 \* the two maps of main.rs as they were when that call began
    assumptions_hold,            \* lockstep runs: no call so far reused a deposit id, disputed
                                 \* a deposit again, or resolved or charged back a tx that
                                 \* was not under dispute in the caller's account
    processed,                   \* number of calls made / records consumed
    input,                       \* the records of the file load_transactions reads
    pc                           \* where the caller is: "calling" for direct calls of
                                 \* Ledger::process_transaction; "reading", "failed",
                                 \* "done" in load_transactions of either file

vars == <<accounts, deposit_transactions_cache, transaction, result, before,
          deposited, resolved_seen, last_deposit, disputed_since_deposit,
          referenced, disputes_made, charged_back, duplicate_deposit,
          main_accounts, main_cache, main_result, main_before,
          assumptions_hold, processed, input, pc>>

Ledger == [accounts |-> accounts,
           deposit_transactions_cache |-> deposit_transactions_cache]

\* The two maps of main.rs, as a ledger value.
MainLedger == [accounts |-> main_accounts,
               deposit_transactions_cache |-> main_cache]

main_vars == <<main_accounts, main_cache, main_result, main_before>>

\* Ledger::new
LedgerNew == [accounts |-> EmptyMap, deposit_transactions_cache |-> EmptyMap]

\* The state right after Ledger::new, before any call.
InitLedger ==
    /\ accounts = LedgerNew.accounts
    /\ deposit_transactions_cache = LedgerNew.deposit_transactions_cache
    /\ transaction = NoTransaction
    /\ result = OkResult
    /\ before = LedgerNew
    /\ deposited = {}
    /\ resolved_seen = {}
    /\ last_deposit = EmptyMap
    /\ disputed_since_deposit = {}
    /\ referenced = {}
    /\ disputes_made = {}
    /\ charged_back = {}
    /\ duplicate_deposit = FALSE
    /\ main_accounts = EmptyMap
    /\ main_cache = EmptyMap
    /\ main_result = OkResult
    /\ main_before = LedgerNew
    /\ assumptions_hold = TRUE
    /\ processed = 0

Init ==
    /\ InitLedger
    /\ input = << >>
    /\ pc = "calling"

\* What one call ledger.process_transaction(&tx) does to the ledger, with
\* the record of the run kept beside it.
LedgerStep(tx) ==
    /\ LET r == ProcessTransaction(Ledger, tx) IN
       /\ accounts' = r.accounts
       /\ deposit_transactions_cache' = r.deposit_transactions_cache
       /\ result' = r.result
       /\ deposited' = IF tx.type_ = "deposit" /\ r.result = OkResult
                       THEN deposited \cup {tx.id} ELSE deposited
       /\ resolved_seen' =
              IF tx.type_ = "resolve"
                 /\ tx.id \in DOMAIN OrInsert(accounts, tx.client)[tx.client].disputed_txs
              THEN resolved_seen \cup {tx.id} ELSE resolved_seen
       /\ last_deposit' =
              IF tx.type_ = "deposit" /\ r.result = OkResult
              THEN MapInsert(last_deposit, tx.id, Unwrap(tx.amount))
              ELSE last_deposit
       /\ disputed_since_deposit' =
              CASE tx.type_ = "deposit" /\ r.result = OkResult
                     -> disputed_since_deposit \ {tx.id}
                [] tx.type_ = "dispute" /\ tx.id \in deposited
                     -> disputed_since_deposit \cup {tx.id}
                [] OTHER -> disputed_since_deposit
       /\ disputes_made' =
              IF tx.type_ = "dispute" /\ tx.id \in DOMAIN deposit_transactions_cache
              THEN disputes_made \cup {<<tx.client, tx.id>>} ELSE disputes_made
       /\ charged_back' =
              IF tx.type_ = "chargeback"
                 /\ tx.id \in DOMAIN OrInsert(accounts, tx.client)[tx.client].disputed_txs
              THEN charged_back \cup {<<tx.client, tx.id>>} ELSE charged_back
       /\ duplicate_deposit' =
              (duplicate_deposit
               \/ (tx.type_ = "deposit" /\ r.result = OkResult /\ tx.id \in deposited))
    /\ referenced' = referenced \cup {tx.client}
    /\ before' = Ledger

\* One call ledger.process_transaction(&tx), as the unit tests make it: the
\* caller keeps the ledger and may call again after a failed call.
Call(tx) ==
    /\ LedgerStep(tx)
    /\ transaction' = tx
    /\ processed' = processed + 1
    /\ input' = input
    /\ UNCHANGED <<main_vars, assumptions_hold>>

OptionalAmounts == {{}} \cup {{a} : a \in Amounts}

Deposit ==
    \E client \in ClientIds, id \in TransactionIds, amount \in OptionalAmounts :
        /\ processed < MaxTransactions
        /\ pc = "calling"
        /\ Call(Transaction("deposit", client, id, amount))
        /\ pc' = pc

Withdrawal ==
    \E client \in ClientIds, id \in TransactionIds, amount \in OptionalAmounts :
        /\ processed < MaxTransactions
        /\ pc = "calling"
        /\ Call(Transaction("withdrawal", client, id, amount))
        /\ pc' = pc

Dispute ==
    \E client \in ClientIds, id \in TransactionIds :
        /\ processed < MaxTransactions
        /\ pc = "calling"
        /\ Call(Transaction("dispute", client, id, {}))
        /\ pc' = pc

Resolve ==
    \E client \in ClientIds, id \in TransactionIds :
        /\ processed < MaxTransactions
        /\ pc = "calling"
        /\ Call(Transaction("resolve", client, id, {}))
        /\ pc' = pc

Chargeback ==
    \E client \in ClientIds, id \in TransactionIds :
        /\ processed < MaxTransactions
        /\ pc = "calling"
        /\ Call(Transaction("chargeback", client, id, {}))
        /\ pc' = pc

Next == Deposit \/ Withdrawal \/ Dispute \/ Resolve \/ Chargeback

Spec == Init /\ [][Next]_vars

\* ------------------------------------- process_transaction, one tx id only
\* Longer runs of the same calls, all naming tx id 1 and depositing or
\* withdrawing 1, so that one id can be deposited and disputed twice and
\* then resolved or charged back.

SingleIdDeposit ==
    \E client \in ClientIds :
        /\ processed < MaxSingleIdTransactions
        /\ pc = "calling"
        /\ Call(Transaction("deposit", client, 1, {1}))
        /\ pc' = pc

SingleIdWithdrawal ==
    \E client \in ClientIds :
        /\ processed < MaxSingleIdTransactions
        /\ pc = "calling"
        /\ Call(Transaction("withdrawal", client, 1, {1}))
        /\ pc' = pc

SingleIdDispute ==
    \E client \in ClientIds :
        /\ processed < MaxSingleIdTransactions
        /\ pc = "calling"
        /\ Call(Transaction("dispute", client, 1, {}))
        /\ pc' = pc

SingleIdResolve ==
    \E client \in ClientIds :
        /\ processed < MaxSingleIdTransactions
        /\ pc = "calling"
        /\ Call(Transaction("resolve", client, 1, {}))
        /\ pc' = pc

SingleIdChargeback ==
    \E client \in ClientIds :
        /\ processed < MaxSingleIdTransactions
        /\ pc = "calling"
        /\ Call(Transaction("chargeback", client, 1, {}))
        /\ pc' = pc

NextSingleId ==
    \/ SingleIdDeposit
    \/ SingleIdWithdrawal
    \/ SingleIdDispute
    \/ SingleIdResolve
    \/ SingleIdChargeback

SpecSingleId == Init /\ [][NextSingleId]_vars

\* --------------------------------------------------------- output_accounts

\* What serde writes for an account: disputed_txs is skipped.
AccountRow(a) ==
    [client |-> a.client, available |-> a.available, held |-> a.held,
     total |-> a.total, locked |-> a.locked]

\* output_accounts: one row per value of ledger.accounts, in no fixed order.
OutputAccounts(ledger) ==
    {AccountRow(ledger.accounts[c]) : c \in DOMAIN ledger.accounts}

\* ------------------------------------------------------- load_transactions

\* A line of the file that does not deserialize into a Transaction.
MalformedRecord == Transaction("malformed", 0, 0, {})

\* The records a file is made of: every kind of record for every client,
\* on one transaction id and with one amount or none, and a malformed line.
InputRecords ==
    {Transaction(k, c, 1, a) :
        k \in {"deposit", "withdrawal"}, c \in ClientIds, a \in {{}, {1}}}
    \cup {Transaction(k, c, 1, {}) :
        k \in {"dispute", "resolve", "chargeback"}, c \in ClientIds}
    \cup {MalformedRecord}

InputFiles == UNION {[1..n -> InputRecords] : n \in 0..MaxRecords}

ErrMalformedRecord == "csv deserialize error"

\* Mutant of AfterRecord: a failed record is skipped and reading goes on.
AfterRecordSkips(res) == "reading"

\* The ? after process_transaction(...).context(...): an error leaves the
\* loop and the function, Ok goes on to the next record.
AfterRecord(res) == IF res = OkResult THEN "reading" ELSE "failed"

\* let mut ledger = Ledger::new(); the reader is opened on the file.
InitLoad ==
    /\ InitLedger
    /\ input \in InputFiles
    /\ pc = "reading"

\* One iteration of the for loop on a line that deserializes.
ReadRecord ==
    /\ pc = "reading"
    /\ processed < Len(input)
    /\ input[processed + 1] # MalformedRecord
    /\ Call(input[processed + 1])
    /\ pc' = AfterRecord(ProcessTransaction(Ledger, input[processed + 1]).result)

\* One iteration on a line that does not deserialize: line? returns the
\* error before process_transaction is called.
ReadMalformed ==
    /\ pc = "reading"
    /\ processed < Len(input)
    /\ input[processed + 1] = MalformedRecord
    /\ transaction' = MalformedRecord
    /\ result' = ErrMalformedRecord
    /\ before' = Ledger
    /\ processed' = processed + 1
    /\ pc' = AfterRecord(ErrMalformedRecord)
    /\ UNCHANGED <<accounts, deposit_transactions_cache, deposited,
                   resolved_seen, last_deposit, disputed_since_deposit,
                   referenced, disputes_made, charged_back, duplicate_deposit,
                   main_vars, assumptions_hold, input>>

\* The reader is exhausted: Ok(ledger).
EndOfInput ==
    /\ pc = "reading"
    /\ processed = Len(input)
    /\ pc' = "done"
    /\ UNCHANGED <<accounts, deposit_transactions_cache, transaction, result,
                   before, deposited, resolved_seen, last_deposit,
                   disputed_since_deposit, referenced, disputes_made,
                   charged_back, duplicate_deposit, main_vars,
                   assumptions_hold, processed, input>>

NextLoad == ReadRecord \/ ReadMalformed \/ EndOfInput

SpecLoad == InitLoad /\ [][NextLoad]_vars

\* ------------------------------------------- main.rs: load_transactions
\* process_transaction of main.rs is private and load_transactions is its
\* only caller: it calls it once per record, in file order, and returns at
\* the first record that fails to deserialize or to process.  The reader
\* yields any record; main_accounts and main_cache are the two maps of the
\* loop, and at "failed" they are the maps as the failing call left them,
\* which the return then drops unseen.

\* Where the loop of main.rs goes after a record: `?` returns on an Err.
MainAfterRecord(res) == IF res = OkResult THEN "reading" ELSE "failed"

InitMain ==
    /\ InitLedger
    /\ input = << >>
    /\ pc = "reading"

\* What one call of main.rs process_transaction does to the maps of main.rs.
MainStep(tx) ==
    /\ LET r == MainProcessTransaction(MainLedger, tx) IN
       /\ main_accounts' = r.accounts
       /\ main_cache' = r.deposit_transactions_cache
       /\ main_result' = r.result
    /\ main_before' = MainLedger

\* One turn of the loop on a record that deserializes: the call of
\* process_transaction and the `?` on its result.
MainCall(tx) ==
    /\ MainStep(tx)
    /\ pc' = MainAfterRecord(MainProcessTransaction(MainLedger, tx).result)
    /\ transaction' = tx
    /\ processed' = processed + 1
    /\ UNCHANGED <<accounts, deposit_transactions_cache, result, before,
                   deposited, resolved_seen, last_deposit,
                   disputed_since_deposit, referenced, disputes_made,
                   charged_back, duplicate_deposit, assumptions_hold, input>>

MainDeposit ==
    \E client \in ClientIds, id \in TransactionIds, amount \in OptionalAmounts :
        /\ processed < MaxMainTransactions
        /\ pc = "reading"
        /\ MainCall(Transaction("deposit", client, id, amount))

MainWithdrawal ==
    \E client \in ClientIds, id \in TransactionIds, amount \in OptionalAmounts :
        /\ processed < MaxMainTransactions
        /\ pc = "reading"
        /\ MainCall(Transaction("withdrawal", client, id, amount))

MainDispute ==
    \E client \in ClientIds, id \in TransactionIds :
        /\ processed < MaxMainTransactions
        /\ pc = "reading"
        /\ MainCall(Transaction("dispute", client, id, {}))

MainResolve ==
    \E client \in ClientIds, id \in TransactionIds :
        /\ processed < MaxMainTransactions
        /\ pc = "reading"
        /\ MainCall(Transaction("resolve", client, id, {}))

MainChargeback ==
    \E client \in ClientIds, id \in TransactionIds :
        /\ processed < MaxMainTransactions
        /\ pc = "reading"
        /\ MainCall(Transaction("chargeback", client, id, {}))

\* `let transaction: TransactionData = line?` fails: no call is made.
MainReadMalformed ==
    /\ processed < MaxMainTransactions
    /\ pc = "reading"
    /\ transaction' = MalformedRecord
    /\ main_result' = ErrMalformedRecord
    /\ main_before' = MainLedger
    /\ processed' = processed + 1
    /\ pc' = MainAfterRecord(ErrMalformedRecord)
    /\ UNCHANGED <<accounts, deposit_transactions_cache, result, before,
                   deposited, resolved_seen, last_deposit,
                   disputed_since_deposit, referenced, disputes_made,
                   charged_back, duplicate_deposit, main_accounts, main_cache,
                   assumptions_hold, input>>

\* The reader is exhausted: Ok(accounts).
MainEndOfInput ==
    /\ pc = "reading"
    /\ pc' = "done"
    /\ UNCHANGED <<accounts, deposit_transactions_cache, transaction, result,
                   before, deposited, resolved_seen, last_deposit,
                   disputed_since_deposit, referenced, disputes_made,
                   charged_back, duplicate_deposit, main_vars,
                   assumptions_hold, processed, input>>

NextMain ==
    \/ MainDeposit
    \/ MainWithdrawal
    \/ MainDispute
    \/ MainResolve
    \/ MainChargeback
    \/ MainReadMalformed
    \/ MainEndOfInput

SpecMain == InitMain /\ [][NextMain]_vars

\* ------------------------- main.rs and accounting.rs on the same records
\* load_transactions of main.rs and load_transactions of accounting.rs read
\* the same records; the comparison goes on while neither has returned.

\* The transaction keeps the run within the assumptions under which the two
\* implementations are compared: it is not a deposit under a tx id that a
\* deposit has used, not a Dispute of a deposit that was disputed before,
\* and not a Resolve or Chargeback of a tx that is not under dispute in the
\* account of its client.
KeepsAssumptions(tx) ==
    CASE tx.type_ = "deposit" -> tx.id \notin deposited
      [] tx.type_ = "dispute" -> \A p \in disputes_made : p[2] # tx.id
      [] tx.type_ \in {"resolve", "chargeback"} ->
             tx.id \in DOMAIN OrInsert(accounts, tx.client)[tx.client].disputed_txs
      [] OTHER -> TRUE

\* Both loops go on only if neither call failed.
LockstepAfterRecord(res, main_res) ==
    IF AfterRecord(res) = "reading" /\ MainAfterRecord(main_res) = "reading"
    THEN "reading" ELSE "failed"

LockstepCall(tx) ==
    /\ LedgerStep(tx)
    /\ MainStep(tx)
    /\ pc' = LockstepAfterRecord(ProcessTransaction(Ledger, tx).result,
                                 MainProcessTransaction(MainLedger, tx).result)
    /\ assumptions_hold' = (assumptions_hold /\ KeepsAssumptions(tx))
    /\ transaction' = tx
    /\ processed' = processed + 1
    /\ input' = input

LockstepDeposit ==
    \E client \in ClientIds, id \in TransactionIds, amount \in OptionalAmounts :
        /\ processed < MaxMainTransactions
        /\ pc = "reading"
        /\ LockstepCall(Transaction("deposit", client, id, amount))

LockstepWithdrawal ==
    \E client \in ClientIds, id \in TransactionIds, amount \in OptionalAmounts :
        /\ processed < MaxMainTransactions
        /\ pc = "reading"
        /\ LockstepCall(Transaction("withdrawal", client, id, amount))

LockstepDispute ==
    \E client \in ClientIds, id \in TransactionIds :
        /\ processed < MaxMainTransactions
        /\ pc = "reading"
        /\ LockstepCall(Transaction("dispute", client, id, {}))

LockstepResolve ==
    \E client \in ClientIds, id \in TransactionIds :
        /\ processed < MaxMainTransactions
        /\ pc = "reading"
        /\ LockstepCall(Transaction("resolve", client, id, {}))

LockstepChargeback ==
    \E client \in ClientIds, id \in TransactionIds :
        /\ processed < MaxMainTransactions
        /\ pc = "reading"
        /\ LockstepCall(Transaction("chargeback", client, id, {}))

\* The record fails to deserialize in both programs.
LockstepReadMalformed ==
    /\ processed < MaxMainTransactions
    /\ pc = "reading"
    /\ transaction' = MalformedRecord
    /\ result' = ErrMalformedRecord
    /\ before' = Ledger
    /\ main_result' = ErrMalformedRecord
    /\ main_before' = MainLedger
    /\ processed' = processed + 1
    /\ pc' = LockstepAfterRecord(ErrMalformedRecord, ErrMalformedRecord)
    /\ UNCHANGED <<accounts, deposit_transactions_cache, deposited,
                   resolved_seen, last_deposit, disputed_since_deposit,
                   referenced, disputes_made, charged_back, duplicate_deposit,
                   main_accounts, main_cache, assumptions_hold, input>>

\* The reader is exhausted in both programs.
LockstepEndOfInput ==
    /\ pc = "reading"
    /\ pc' = "done"
    /\ UNCHANGED <<accounts, deposit_transactions_cache, transaction, result,
                   before, deposited, resolved_seen, last_deposit,
                   disputed_since_deposit, referenced, disputes_made,
                   charged_back, duplicate_deposit, main_vars,
                   assumptions_hold, processed, input>>

NextLockstep ==
    \/ LockstepDeposit
    \/ LockstepWithdrawal
    \/ LockstepDispute
    \/ LockstepResolve
    \/ LockstepChargeback
    \/ LockstepReadMalformed
    \/ LockstepEndOfInput

SpecLockstep == InitMain /\ [][NextLockstep]_vars

\* ----------------------------------------------------------------- claims

\* The account of client c as the last call found it after or_insert.
BeforeAccount(c) == OrInsert(before.accounts, c)[c]

\* The last call was a dispute, resolve or chargeback.
IsReference == transaction.type_ \in {"dispute", "resolve", "chargeback"}

\* The last call was a withdrawal that carried an amount.
IsWithdrawalWithAmount ==
    transaction.type_ = "withdrawal" /\ transaction.amount # {}

\* C1: in every reachable state, whatever calls were made and whether they
\* succeeded or failed, every account has total = available + held.
C1_TotalIsAvailablePlusHeld ==
    \A c \in DOMAIN accounts :
        accounts[c].total = accounts[c].available + accounts[c].held

\* C1 witness: a withdrawal has just failed on an account that holds funds
\* under dispute and whose available balance is negative.
C1_Witness ==
    /\ transaction.type_ = "withdrawal"
    /\ result = ErrInsufficientFunds
    /\ accounts[transaction.client].held > 0
    /\ accounts[transaction.client].available < 0

\* C2: in every reachable state, for every client and tx, a second
\* Resolve(client, tx) right after a first one succeeds and leaves the
\* accounts and the deposit cache exactly as the first one left them.
C2_SecondResolveIsNoOp ==
    \A c \in ClientIds, t \in TransactionIds :
        LET tx == Transaction("resolve", c, t, {})
            first == ProcessTransaction(Ledger, tx)
            second == ProcessTransaction(first, tx)
        IN /\ second.result = OkResult
           /\ second.accounts = first.accounts
           /\ second.deposit_transactions_cache = first.deposit_transactions_cache

\* C2 witness: the last call was a Resolve that released a dispute, so the
\* state is the one a second Resolve of the same tx is applied to.
C2_Witness ==
    /\ transaction.type_ = "resolve"
    /\ result = OkResult
    /\ transaction.id \in DOMAIN BeforeAccount(transaction.client).disputed_txs
    /\ transaction.id \notin DOMAIN accounts[transaction.client].disputed_txs
    /\ accounts[transaction.client].available
         # BeforeAccount(transaction.client).available

\* C3: a Dispute, Resolve or Chargeback whose tx id no deposit has carried
\* succeeds and leaves the client's existing account and the deposit cache
\* as they were.
C3_UnknownReferenceIsNoOp ==
    (IsReference /\ transaction.id \notin deposited)
    => /\ result = OkResult
       /\ deposit_transactions_cache = before.deposit_transactions_cache
       /\ transaction.client \in DOMAIN before.accounts
          => accounts[transaction.client] = before.accounts[transaction.client]

\* C3 witness: a Chargeback for a never-deposited id has been applied to an
\* existing account that holds another transaction under dispute.
C3_Witness ==
    /\ transaction.type_ = "chargeback"
    /\ transaction.id \notin deposited
    /\ transaction.client \in DOMAIN before.accounts
    /\ before.accounts[transaction.client].disputed_txs # EmptyMap
    /\ before.accounts[transaction.client].held # 0

\* C4: a Withdrawal of more than the available balance fails with
\* "funds are not sufficient for withdrawal" and leaves the account and the
\* deposit cache as they were.
C4_ExcessiveWithdrawalFails ==
    (IsWithdrawalWithAmount
     /\ Unwrap(transaction.amount) > BeforeAccount(transaction.client).available)
    => /\ result = ErrInsufficientFunds
       /\ accounts[transaction.client] = BeforeAccount(transaction.client)
       /\ deposit_transactions_cache = before.deposit_transactions_cache

\* C4 witness: a withdrawal failed although the total would have covered
\* it, because part of the total is held.
C4_Witness ==
    /\ IsWithdrawalWithAmount
    /\ result = ErrInsufficientFunds
    /\ Unwrap(transaction.amount) > BeforeAccount(transaction.client).available
    /\ Unwrap(transaction.amount) <= BeforeAccount(transaction.client).total

\* The effect of a successful withdrawal of amount on account b.
WithdrawalEffect(b, amount) ==
    /\ accounts[transaction.client] =
          [b EXCEPT !.available = @ - amount, !.total = @ - amount]
    /\ deposit_transactions_cache = before.deposit_transactions_cache

\* C5 as stated: a Withdrawal with an amount succeeds exactly when
\* available >= amount, and on success decreases available and total by
\* amount and leaves held, locked, disputed set and cache unchanged.
C5_SucceedsIffAvailableCovers ==
    IsWithdrawalWithAmount
    => LET b == BeforeAccount(transaction.client)
           amount == Unwrap(transaction.amount)
       IN /\ (result = OkResult) <=> (b.available >= amount)
          /\ result = OkResult => WithdrawalEffect(b, amount)

\* C5 amended: a Withdrawal with an amount succeeds exactly when
\* available >= amount and total >= amount, and fails with the insufficient
\* funds error otherwise; on success it decreases available and total by
\* amount and leaves held, locked, disputed set and cache unchanged.
C5_SucceedsIffAvailableAndTotalCover ==
    IsWithdrawalWithAmount
    => LET b == BeforeAccount(transaction.client)
           amount == Unwrap(transaction.amount)
       IN /\ (result = OkResult) <=> (b.available >= amount /\ b.total >= amount)
          /\ result # OkResult => result = ErrInsufficientFunds
          /\ result = OkResult => WithdrawalEffect(b, amount)

\* C5 witness: a withdrawal of the whole available balance has succeeded on
\* an account that holds funds under dispute.
C5_Witness ==
    /\ IsWithdrawalWithAmount
    /\ result = OkResult
    /\ Unwrap(transaction.amount) > 0
    /\ Unwrap(transaction.amount) = BeforeAccount(transaction.client).available
    /\ BeforeAccount(transaction.client).held > 0

\* C6: an account that was locked when a call began is locked when the call
\* has returned, whatever the call was and whether it succeeded.
C6_LockedStaysLocked ==
    \A c \in DOMAIN before.accounts :
        before.accounts[c].locked => (c \in DOMAIN accounts /\ accounts[c].locked)

\* C6 witness: a deposit has been applied to an account that was already
\* locked, and the account is still locked.
C6_Witness ==
    /\ transaction.type_ = "deposit"
    /\ result = OkResult
    /\ transaction.client \in DOMAIN before.accounts
    /\ before.accounts[transaction.client].locked
    /\ accounts[transaction.client].locked

\* C7: a Dispute whose tx is in the deposit cache with amount A records tx
\* as disputed with amount A in the client's account, adds A to held, takes
\* A from available whatever the available balance is, and leaves total and
\* locked unchanged.
C7_DisputeHoldsCachedAmount ==
    (transaction.type_ = "dispute"
     /\ transaction.id \in DOMAIN before.deposit_transactions_cache)
    => LET A == before.deposit_transactions_cache[transaction.id]
           b == BeforeAccount(transaction.client)
           a == accounts[transaction.client]
       IN /\ result = OkResult
          /\ transaction.id \in DOMAIN a.disputed_txs
          /\ a.disputed_txs[transaction.id] = A
          /\ a.held = b.held + A
          /\ a.available = b.available - A
          /\ a.total = b.total
          /\ a.locked = b.locked

\* C7 witness: after deposit of 1 and withdrawal of 1 the deposit has been
\* disputed: available = -1, held = 1, total = 0.
C7_Witness ==
    /\ transaction.type_ = "dispute"
    /\ transaction.id \in DOMAIN before.deposit_transactions_cache
    /\ before.deposit_transactions_cache[transaction.id] = 1
    /\ BeforeAccount(transaction.client).available = 0
    /\ BeforeAccount(transaction.client).held = 0
    /\ accounts[transaction.client].available = -1
    /\ accounts[transaction.client].held = 1
    /\ accounts[transaction.client].total = 0

\* C8: a Chargeback whose tx is in the client's disputed set with amount A
\* removes tx from the set, takes A from held and from total, leaves
\* available unchanged and sets locked; total may become negative.
C8_ChargebackReversesDisputedAmount ==
    (transaction.type_ = "chargeback"
     /\ transaction.id \in DOMAIN BeforeAccount(transaction.client).disputed_txs)
    => LET b == BeforeAccount(transaction.client)
           A == b.disputed_txs[transaction.id]
           a == accounts[transaction.client]
       IN /\ result = OkResult
          /\ a.disputed_txs = MapRemove(b.disputed_txs, transaction.id)
          /\ a.held = b.held - A
          /\ a.total = b.total - A
          /\ a.available = b.available
          /\ a.locked

\* C8 witness: after deposit of 1, withdrawal of 1 and dispute, the
\* chargeback has left available = -1, held = 0, total = -1, locked.
C8_Witness ==
    /\ transaction.type_ = "chargeback"
    /\ transaction.id \in DOMAIN BeforeAccount(transaction.client).disputed_txs
    /\ BeforeAccount(transaction.client).disputed_txs[transaction.id] = 1
    /\ ~BeforeAccount(transaction.client).locked
    /\ accounts[transaction.client].available = -1
    /\ accounts[transaction.client].held = 0
    /\ accounts[transaction.client].total = -1
    /\ accounts[transaction.client].locked

\* C9: in every reachable state, for every client and every tx in the
\* deposit cache, Dispute(client, tx) followed at once by Resolve(client, tx)
\* leaves the client's available, held, total and locked as they were
\* before the dispute.
C9_DisputeThenResolveRestores ==
    \A c \in ClientIds, t \in DOMAIN deposit_transactions_cache :
        LET b == OrInsert(accounts, c)[c]
            disputed == ProcessTransaction(Ledger, Transaction("dispute", c, t, {}))
            resolved == ProcessTransaction(disputed, Transaction("resolve", c, t, {}))
            a == resolved.accounts[c]
        IN /\ disputed.result = OkResult
           /\ disputed.accounts[c].held = b.held + deposit_transactions_cache[t]
           /\ resolved.result = OkResult
           /\ a.available = b.available
           /\ a.held = b.held
           /\ a.total = b.total
           /\ a.locked = b.locked

\* C9 witness: a Resolve has just released a dispute, leaving the account
\* with nothing held and a positive balance, while another deposit is still
\* in the cache to be disputed next.
C9_Witness ==
    /\ transaction.type_ = "resolve"
    /\ transaction.id \in DOMAIN BeforeAccount(transaction.client).disputed_txs
    /\ accounts[transaction.client].held = 0
    /\ accounts[transaction.client].available > 0
    /\ accounts[transaction.client].available = accounts[transaction.client].total
    /\ deposit_transactions_cache # EmptyMap

\* The tx ids that are under dispute in some account when the call begins.
DisputedBefore ==
    UNION {DOMAIN before.accounts[c].disputed_txs : c \in DOMAIN before.accounts}

\* C10 as stated: a Dispute on a tx id that is already disputed, or that
\* was disputed and then resolved, changes no account, also when the same
\* tx id has been deposited more than once.
C10_RepeatedDisputeIsNoOp ==
    (transaction.type_ = "dispute"
     /\ transaction.id \in DisputedBefore \cup resolved_seen)
    => \A c \in DOMAIN accounts : accounts[c] = BeforeAccount(c)

\* C11 as stated: the deposit cache holds the tx id of every deposit
\* applied so far, with the amount of the latest deposit of that id.
C11_CacheHoldsEveryDeposit ==
    \A t \in deposited :
        /\ t \in DOMAIN deposit_transactions_cache
        /\ deposit_transactions_cache[t] = last_deposit[t]

\* C11 amended: the deposit cache holds exactly the tx ids of the deposits
\* applied so far that no Dispute has named since their latest deposit,
\* each with the amount of the latest deposit of that id.
C11_CacheHoldsUndisputedDeposits ==
    /\ DOMAIN last_deposit = deposited
    /\ deposit_transactions_cache =
          MapRestrict(last_deposit, deposited \ disputed_since_deposit)

\* C11 witness: one id was deposited twice with different amounts and is in
\* the cache, and another deposited id has left the cache by a dispute.
C11_Witness ==
    /\ transaction.type_ = "deposit"
    /\ result = OkResult
    /\ transaction.id \in DOMAIN before.deposit_transactions_cache
    /\ before.deposit_transactions_cache[transaction.id] # Unwrap(transaction.amount)
    /\ disputed_since_deposit # {}

\* C12: a Deposit with an amount succeeds, adds the amount to available and
\* total, leaves held, locked and the disputed set unchanged, and sets
\* deposit_cache[tx] to the amount, whatever was cached under tx before,
\* leaving the other cache entries alone.
C12_DepositCreditsAndCaches ==
    (transaction.type_ = "deposit" /\ transaction.amount # {})
    => LET b == BeforeAccount(transaction.client)
           amount == Unwrap(transaction.amount)
       IN /\ result = OkResult
          /\ accounts[transaction.client] =
                [b EXCEPT !.available = @ + amount, !.total = @ + amount]
          /\ transaction.id \in DOMAIN deposit_transactions_cache
          /\ deposit_transactions_cache[transaction.id] = amount
          /\ \A t \in TransactionIds \ {transaction.id} :
                MapGet(deposit_transactions_cache, t)
                   = MapGet(before.deposit_transactions_cache, t)

\* C12 witness: a deposit has been applied to an account with funds held
\* under an id that was cached with another amount.
C12_Witness ==
    /\ transaction.type_ = "deposit"
    /\ result = OkResult
    /\ transaction.id \in DOMAIN before.deposit_transactions_cache
    /\ before.deposit_transactions_cache[transaction.id] # Unwrap(transaction.amount)
    /\ BeforeAccount(transaction.client).held # 0

\* An account without its locked flag.
SansLocked(a) == [a EXCEPT !.locked = FALSE]

\* C13: had any one account's locked flag been the other way round when
\* the last call began, the call would have returned the same result and
\* left the same available, held, total and disputed set in every account
\* and the same deposit cache.
C13_LockedDoesNotGate ==
    transaction # NoTransaction
    => \A c \in DOMAIN before.accounts :
          LET other == [before EXCEPT !.accounts[c].locked = ~@]
              r == ProcessTransaction(other, transaction)
          IN /\ r.result = result
             /\ r.deposit_transactions_cache = deposit_transactions_cache
             /\ DOMAIN r.accounts = DOMAIN accounts
             /\ \A k \in DOMAIN accounts :
                   SansLocked(r.accounts[k]) = SansLocked(accounts[k])

\* C13 witness: a deposit has been applied to a locked account and was
\* credited.
C13_Witness ==
    /\ transaction.type_ = "deposit"
    /\ result = OkResult
    /\ BeforeAccount(transaction.client).locked
    /\ accounts[transaction.client].available
          = BeforeAccount(transaction.client).available + Unwrap(transaction.amount)

\* C14: a Deposit or Withdrawal without an amount returns the error of its
\* kind and leaves the client's account and the deposit cache as they were.
C14_MissingAmountChangesNothing ==
    (transaction.type_ \in {"deposit", "withdrawal"} /\ transaction.amount = {})
    => /\ result = IF transaction.type_ = "deposit"
                   THEN ErrDepositAmount ELSE ErrWithdrawalAmount
       /\ accounts[transaction.client] = BeforeAccount(transaction.client)
       /\ deposit_transactions_cache = before.deposit_transactions_cache

\* C14 witness: a withdrawal without an amount has been refused on an
\* account that has a balance, while the cache holds a deposit.
C14_Witness ==
    /\ transaction.type_ = "withdrawal"
    /\ transaction.amount = {}
    /\ result = ErrWithdrawalAmount
    /\ BeforeAccount(transaction.client).total # 0
    /\ before.deposit_transactions_cache # EmptyMap

\* The ledger after the first k records of recs have all been processed.
RECURSIVE Replay(_, _)
Replay(recs, k) ==
    IF k = 0 THEN LedgerNew
    ELSE LET r == ProcessTransaction(Replay(recs, k - 1), recs[k])
         IN [accounts |-> r.accounts,
             deposit_transactions_cache |-> r.deposit_transactions_cache]

\* Record i of recs fails when processed after the records before it.
RecordFails(recs, i) ==
    \/ recs[i] = MalformedRecord
    \/ ProcessTransaction(Replay(recs, i - 1), recs[i]).result # OkResult

\* The index of the first failing record of recs, 0 when none fails.
FirstFailure(recs) ==
    LET failing == {i \in 1..Len(recs) :
                       /\ \A j \in 1..(i - 1) : recs[j] # MalformedRecord
                       /\ RecordFails(recs, i)}
    IN IF failing = {} THEN 0
       ELSE CHOOSE i \in failing : \A j \in failing : i <= j

\* While reading, and when the file is exhausted, the ledger is the replay
\* of the records consumed, none of which has failed.
LoadInOrder ==
    /\ pc = "reading"
       => /\ processed <= Len(input)
          /\ FirstFailure(input) \notin 1..processed
          /\ Ledger = Replay(input, processed)
    /\ pc = "done"
       => /\ processed = Len(input)
          /\ FirstFailure(input) = 0
          /\ Ledger = Replay(input, Len(input))

\* C15 as stated: load_transactions applies the records in input order and
\* stops at the first failing record with an error; the ledger at the abort
\* reflects exactly the records before the failing one.
C15_AbortsAtFirstFailure ==
    /\ LoadInOrder
    /\ pc = "failed"
       => /\ FirstFailure(input) > 0
          /\ processed = FirstFailure(input)
          /\ result # OkResult
          /\ Ledger = Replay(input, processed - 1)

\* C15 amended: as stated, except that at the abort the ledger also holds
\* the all-zero account or_insert made for the failing record's client when
\* that client had no account yet.
C15_AbortsAtFirstFailureAfterOrInsert ==
    /\ LoadInOrder
    /\ pc = "failed"
       => /\ FirstFailure(input) > 0
          /\ processed = FirstFailure(input)
          /\ result # OkResult
          /\ deposit_transactions_cache
                = Replay(input, processed - 1).deposit_transactions_cache
          /\ accounts =
                IF input[processed] = MalformedRecord
                THEN Replay(input, processed - 1).accounts
                ELSE OrInsert(Replay(input, processed - 1).accounts,
                              input[processed].client)

\* C15 witness: the run has aborted on the second of three records, a
\* withdrawal exceeding the deposit made by the first.
C15_Witness ==
    /\ pc = "failed"
    /\ Len(input) = 3
    /\ processed = 2
    /\ input[1].type_ = "deposit"
    /\ input[2].type_ = "withdrawal"
    /\ result = ErrInsufficientFunds
    /\ accounts[input[1].client].total = 1

\* C16: the accounts are exactly those of the clients referenced by the
\* transactions processed so far, each under its own client id; a call
\* removes no account, leaves the accounts of other clients as they were,
\* and works on the existing account of its client rather than a new one;
\* the snapshot has exactly one row per referenced client.
C16_AccountsPersist ==
    /\ DOMAIN accounts = referenced
    /\ \A c \in DOMAIN accounts : accounts[c].client = c
    /\ \A c \in DOMAIN before.accounts :
          /\ c \in DOMAIN accounts
          /\ c # transaction.client => accounts[c] = before.accounts[c]
    /\ transaction.client \in DOMAIN before.accounts
       => LET b == before.accounts[transaction.client]
              a == accounts[transaction.client]
          IN /\ result # OkResult => a = b
             /\ (transaction.type_ = "deposit" /\ result = OkResult)
                => /\ a.total = b.total + Unwrap(transaction.amount)
                   /\ a.held = b.held
                   /\ a.locked = b.locked
                   /\ a.disputed_txs = b.disputed_txs
    /\ Cardinality(OutputAccounts(Ledger)) = Cardinality(referenced)
    /\ {row.client : row \in OutputAccounts(Ledger)} = referenced

\* C16 witness: a second deposit has been applied to a client that had a
\* balance, while another client has an account as well.
C16_Witness ==
    /\ transaction.type_ = "deposit"
    /\ result = OkResult
    /\ transaction.client \in DOMAIN before.accounts
    /\ before.accounts[transaction.client].total # 0
    /\ Cardinality(OutputAccounts(Ledger)) = 2

\* C17 as stated: when a tx id is disputed in the account of a client other
\* than transaction.client, a Resolve or Chargeback naming it changes no
\* account.
C17_ForeignResolveIsNoOp ==
    (/\ transaction.type_ \in {"resolve", "chargeback"}
     /\ \E a \in DOMAIN before.accounts :
           /\ a # transaction.client
           /\ transaction.id \in DOMAIN before.accounts[a].disputed_txs)
    => /\ result = OkResult
       /\ \A c \in DOMAIN accounts : accounts[c] = BeforeAccount(c)

\* C18: an account is locked only if a Chargeback was applied to it earlier
\* for a tx id that was then in its disputed set, which that client had
\* disputed before and which had been deposited before; the flag turns
\* true in no other call.
C18_LockedOnlyByChargeback ==
    /\ \A c \in DOMAIN accounts :
          accounts[c].locked => \E t \in TransactionIds : <<c, t>> \in charged_back
    /\ charged_back \subseteq disputes_made
    /\ \A p \in disputes_made : p[2] \in deposited
    /\ \A c \in DOMAIN accounts :
          (accounts[c].locked /\ ~BeforeAccount(c).locked)
          => /\ transaction.type_ = "chargeback"
             /\ transaction.client = c
             /\ transaction.id \in DOMAIN BeforeAccount(c).disputed_txs
             /\ result = OkResult

\* C18 witness: a Chargeback on a disputed tx has just locked an account
\* that was not locked.
C18_Witness ==
    /\ transaction.type_ = "chargeback"
    /\ transaction.client \in DOMAIN accounts
    /\ accounts[transaction.client].locked
    /\ ~BeforeAccount(transaction.client).locked
    /\ <<transaction.client, transaction.id>> \in charged_back

\* The sum of the amounts of a tx id -> amount map.
RECURSIVE MapSum(_)
MapSum(m) ==
    IF DOMAIN m = {} THEN 0
    ELSE LET k == CHOOSE x \in DOMAIN m : TRUE
         IN m[k] + MapSum(MapRemove(m, k))

\* C20: as long as no deposit has been applied under a tx id already
\* deposited, each account's held is the sum of the amounts in its disputed
\* set, no tx id is both in the deposit cache and in a disputed set, and no
\* tx id is in the disputed sets of two accounts.
C20_HeldIsSumOfDisputed ==
    ~duplicate_deposit
    => /\ \A c \in DOMAIN accounts :
             accounts[c].held = MapSum(accounts[c].disputed_txs)
       /\ \A c \in DOMAIN accounts :
             DOMAIN accounts[c].disputed_txs
                \cap DOMAIN deposit_transactions_cache = {}
       /\ \A c1, c2 \in DOMAIN accounts :
             c1 # c2 => DOMAIN accounts[c1].disputed_txs
                           \cap DOMAIN accounts[c2].disputed_txs = {}

\* C20 witness: deposit ids were unique and two accounts each hold a
\* dispute, on different tx ids.
C20_Witness ==
    /\ ~duplicate_deposit
    /\ \E c1, c2 \in DOMAIN accounts :
          /\ c1 # c2
          /\ accounts[c1].disputed_txs # EmptyMap
          /\ accounts[c2].disputed_txs # EmptyMap
          /\ accounts[c1].held # 0

\* C19: in main.rs a Dispute on a cached tx id adds the cached amount to
\* held, takes it from available and leaves the id in the cache, so from
\* every state in which the loop is still reading two Disputes of the same deposited tx add the
\* deposit amount to held twice and take it from available twice (in f64
\* arithmetic); on an account that held nothing, held is then exactly twice
\* the amount.
C19_MainDoubleDisputeHoldsTwice ==
    /\ \A t \in DOMAIN main_before.deposit_transactions_cache :
          /\ t \in DOMAIN main_cache
          /\ transaction.type_ # "deposit"
             => main_cache[t] = main_before.deposit_transactions_cache[t]
    /\ pc = "reading" =>
       \A c \in ClientIds, t \in DOMAIN main_cache :
          LET dispute == Transaction("dispute", c, t, {})
              once == MainProcessTransaction(MainLedger, dispute)
              twice == MainProcessTransaction(
                           [accounts |-> once.accounts,
                            deposit_transactions_cache |->
                                once.deposit_transactions_cache],
                           dispute)
              a0 == MainOrInsert(main_accounts, c)[c]
              a2 == twice.accounts[c]
              amount == main_cache[t]
          IN /\ once.result = OkResult
             /\ twice.result = OkResult
             /\ a2.held = F64Add(F64Add(a0.held, amount), amount)
             /\ a2.available = F64Sub(F64Sub(a0.available, amount), amount)
             /\ a2.held # a0.held
             /\ a0.held = F64Zero => a2.held = F64Add(amount, amount)
             /\ a2.total = a0.total
             /\ a2.locked = a0.locked

\* C19 witness: a deposit of 0.1 and two Disputes of it by the depositor.
C19_Witness ==
    \E c \in ClientIds, t \in TransactionIds :
        /\ processed = 3
        /\ pc = "reading"
        /\ main_result = OkResult
        /\ transaction = Transaction("dispute", c, t, {})
        /\ main_cache = MapInsert(EmptyMap, t, F64Parse(1))
        /\ DOMAIN main_accounts = {c}
        /\ main_before.accounts[c].held = F64Parse(1)
        /\ main_accounts[c].total = F64Parse(1)
        /\ main_accounts[c].held = F64Parse(2)
        /\ main_accounts[c].available = F64Parse(-1)

\* C21: a call changes at most the account of transaction.client: every
\* other account is as it was and no account but that one appears.  From
\* every reachable state a Dispute of a cached tx id by any client, the
\* depositor or another, puts the hold on the account of the client that
\* issues the Dispute and leaves all other accounts as they were.
C21_OnlyClientAccountChanges ==
    /\ \A c \in DOMAIN before.accounts :
          /\ c \in DOMAIN accounts
          /\ c # transaction.client => accounts[c] = before.accounts[c]
    /\ DOMAIN accounts \subseteq DOMAIN before.accounts \cup {transaction.client}
    /\ \A b \in ClientIds, t \in DOMAIN deposit_transactions_cache :
          LET r == ProcessTransaction(Ledger, Transaction("dispute", b, t, {}))
              b0 == OrInsert(accounts, b)[b]
          IN /\ b \in DOMAIN r.accounts
             /\ r.accounts[b].held = b0.held + deposit_transactions_cache[t]
             /\ r.accounts[b].available
                   = b0.available - deposit_transactions_cache[t]
             /\ r.accounts[b].total = b0.total
             /\ \A c \in DOMAIN accounts \ {b} :
                   /\ c \in DOMAIN r.accounts
                   /\ r.accounts[c] = accounts[c]

\* C21 witness: one client deposited, and the Dispute of that deposit by a
\* client that had no account has put the hold on the new account and left
\* the depositor's account as it was.
C21_Witness ==
    /\ processed = 2
    /\ transaction.type_ = "dispute"
    /\ transaction.client \notin DOMAIN before.accounts
    /\ transaction.id \in DOMAIN before.deposit_transactions_cache
    /\ accounts[transaction.client].held
          = before.deposit_transactions_cache[transaction.id]
    /\ accounts[transaction.client].available
          = 0 - before.deposit_transactions_cache[transaction.id]
    /\ \E a \in DOMAIN before.accounts :
          /\ before.accounts[a].total
                = before.deposit_transactions_cache[transaction.id]
          /\ accounts[a] = before.accounts[a]
          /\ accounts[a].held = 0

\* The f64 of main.rs and the decimal of accounting.rs are the same amount:
\* the f64 is the one that the decimal's text parses to, so that both are
\* written with the same digits.
SameMoney(f, d) == f = F64Parse(d)

\* The account of main.rs and the account of accounting.rs show the same
\* available, held, total and locked.
SameAccount(m, a) ==
    /\ SameMoney(m.available, a.available)
    /\ SameMoney(m.held, a.held)
    /\ SameMoney(m.total, a.total)
    /\ m.locked = a.locked

\* C22 as stated: as long as deposit tx ids are unique, no deposit is
\* disputed twice and every Resolve or Chargeback names a tx under dispute
\* in the account of its client, both implementations fail on the same
\* transactions and every account has the same available, held, total and
\* locked in both after every step.
C22_MainAgreesWithLedger ==
    assumptions_hold
    => /\ (main_result = OkResult) <=> (result = OkResult)
       /\ DOMAIN main_accounts = DOMAIN accounts
       /\ \A c \in DOMAIN accounts :
             /\ c \in DOMAIN main_accounts
             /\ SameAccount(main_accounts[c], accounts[c])

====
